---- MODULE Spec2Model ----
(***************************************************************************)
(* Model of the JSONDB class (src/jsondb_v1.py): an in-memory cache        *)
(* mirroring a single .json file, with load / save and the collection,     *)
(* item and key operations.                                                *)
(*                                                                         *)
(* Python values are records [t, v, n, d]: t is the Python type, v the     *)
(* text of a str (or the element text of a list / tuple / set), n the      *)
(* number of an int (the element count of a list / tuple / set, the        *)
(* instant of an isoformat timestamp), d the                               *)
(* mapping of a dict (<<>> for every other type).  Dictionary keys and     *)
(* names passed to the methods are records [t, v].                         *)
(***************************************************************************)
EXTENDS Integers, Sequences, FiniteSets, TLC

VARIABLES cache, file, now, call, ret, written, deleted, former

vars == <<cache, file, now, call, ret, written, deleted, former>>

-----------------------------------------------------------------------------
(* Python values *)

Str(s) == [t |-> "str", v |-> s]
IntK(s) == [t |-> "int", v |-> s]

PyStr(s) == [t |-> "str", v |-> s, n |-> 0, d |-> <<>>]
PyInt(n) == [t |-> "int", v |-> "", n |-> n, d |-> <<>>]
\* a list, tuple or set of n elements, each the string s
PyList(s, n) == [t |-> "list", v |-> s, n |-> n, d |-> <<>>]
PyTuple(s, n) == [t |-> "tuple", v |-> s, n |-> n, d |-> <<>>]
PySet(s, n) == [t |-> "set", v |-> s, n |-> n, d |-> <<>>]
PyNone == [t |-> "None", v |-> "", n |-> 0, d |-> <<>>]
PyTrue == [t |-> "bool", v |-> "True", n |-> 1, d |-> <<>>]
Dict(f) == [t |-> "dict", v |-> "", n |-> 0, d |-> f]
EmptyDict == Dict(<<>>)

\* datetime.datetime.now().isoformat() at instant n
IsoFormat(n) == [t |-> "str", v |-> "isoformat", n |-> n, d |-> <<>>]

IsDict(x) == x.t = "dict"
IsStr(k) == k.t = "str"
KeysOf(x) == DOMAIN x.d
Restrict(f, S) == IF S = {} THEN <<>> ELSE [j \in S |-> f[j]]
\* x[k] = y
SetItem(x, k, y) == Dict([j \in (DOMAIN x.d) \cup {k} |-> IF j = k THEN y ELSE x.d[j]])
\* del x[k]
DelItem(x, k) == Dict(Restrict(x.d, (DOMAIN x.d) \ {k}))

META == Str("meta")
COLLECTIONS == Str("collections")
VERSION == Str("version")
BYTES == Str("bytes")
UPDATED == Str("updated")

Collections(db) == db.d[COLLECTIONS]
Meta(db) == db.d[META]

-----------------------------------------------------------------------------
(* Error classes of jsondb_errorcode_v1.py; the other names are Python's   *)
(* built-in exceptions, which are not JsonDbError subclasses.              *)

JsonDbErrors == {"PathError", "FileError", "DataError", "LookUpError", "InsertionError"}

code(kind) ==
    CASE kind = "PathError" -> 1001
      [] kind = "FileError" -> 1002
      [] kind = "DataError" -> 1003
      [] kind = "LookUpError" -> 1004
      [] kind = "InsertionError" -> 1005
      [] OTHER -> 1000

\* a normal return of value x
Return(x) == [err |-> "none", cause |-> "none", msg |-> <<>>, val |-> x]
\* raise kind(msg)
Raise(kind, msg) == [err |-> kind, cause |-> "none", msg |-> msg, val |-> PyNone]
\* raise kind(... ({e})) from inside "except Exception as e"
Wrap(kind, e) == [err |-> kind, cause |-> e.err, msg |-> e.msg, val |-> PyNone]

Result(db, r) == [db |-> db, ret |-> r]

-----------------------------------------------------------------------------
(* JSONDB.__init__: the database a successfully constructed instance holds *)

NewCache(t) ==
    Dict((META :> Dict((VERSION :> PyInt(1)) @@ (BYTES :> PyInt(0)) @@ (UPDATED :> IsoFormat(t))))
         @@ (COLLECTIONS :> EmptyDict))

-----------------------------------------------------------------------------
(* JSONDB._validate *)

\* the collections of data that are not json objects
BadCollections(data) == {c \in KeysOf(data) : ~IsDict(data.d[c])}
\* the <<collection, item>> pairs of data whose item is not a json object
BadItems(data) ==
    UNION {{<<c, i>> : i \in {j \in KeysOf(data.d[c]) : ~IsDict(data.d[c].d[j])}} :
           c \in KeysOf(data) \ BadCollections(data)}

\* _validate without the inner loop of lines 73-75: items are not looked at
_validate_NoItemCheck(data) ==
    IF ~IsDict(data)
    THEN Raise("DataError", <<"Invalid database structure: The root element of the file at '",
                              "path", "' must be a json object">>)
    ELSE IF BadCollections(data) # {}
    THEN LET c == CHOOSE x \in BadCollections(data) : TRUE
         IN Raise("DataError", <<"Invalid database structure: The '", c.v,
                                 "' collection must be a json object">>)
    ELSE Return(PyTrue)

\* The loops stop at the first offender in the dict's order, which the model
\* does not keep: the message names some offender.
_validate(data) ==
    IF ~IsDict(data)
    THEN Raise("DataError", <<"Invalid database structure: The root element of the file at '",
                              "path", "' must be a json object">>)
    ELSE IF BadCollections(data) # {}
    THEN LET c == CHOOSE x \in BadCollections(data) : TRUE
         IN Raise("DataError", <<"Invalid database structure: The '", c.v,
                                 "' collection must be a json object">>)
    ELSE IF BadItems(data) # {}
    THEN LET p == CHOOSE x \in BadItems(data) : TRUE
         IN Raise("DataError", <<"Invalid database structure: The '", p[2].v, "' item in the '",
                                 p[1].v, "' collection must be a json object">>)
    ELSE Return(PyTrue)

-----------------------------------------------------------------------------
(* The file at self.path: its text is empty, whitespace only, a JSON       *)
(* document (doc: the value json.load gives for it), or any other text     *)
(* ("text": not JSON; "partial": what a json.dump that raised left).       *)

File(kind, doc) == [kind |-> kind, doc |-> doc]
EmptyFile == File("empty", PyNone)
JsonFile(doc) == File("json", doc)

\* len(x) is defined for these types only
HasLen(x) == x.t \in {"dict", "list", "tuple", "set", "str"}
PyLen(x) == IF IsDict(x) THEN Cardinality(DOMAIN x.d)
            ELSE IF x.t = "str" THEN Len(x.v) ELSE x.n

\* load taking an empty file for an empty database: the collections are reset
load_EmptyResets(db, f, io) ==
    IF io = "open"
    THEN Result(db, Wrap("FileError", Raise("OSError", <<>>)))
    ELSE IF f.kind \in {"empty", "blank"}
    THEN Result(SetItem(db, COLLECTIONS, EmptyDict), Return(PyNone))
    ELSE IF f.kind # "json"
    THEN Result(db, Wrap("FileError", Raise("JSONDecodeError", <<>>)))
    ELSE LET d == f.doc IN
         IF ~HasLen(d)
         THEN Result(db, Wrap("FileError", Raise("TypeError", <<>>)))
         ELSE IF PyLen(d) = 2 /\ ~IsDict(d)
         THEN Result(db, Wrap("FileError", Raise("AttributeError", <<>>)))
         ELSE IF PyLen(d) = 2 /\ META \in KeysOf(d) /\ COLLECTIONS \in KeysOf(d)
         THEN LET r == _validate(d.d[COLLECTIONS])
              IN IF r.err # "none" THEN Result(db, Wrap("FileError", r))
                 ELSE Result(d, Return(PyNone))
         ELSE LET r == _validate(d)
              IN IF r.err # "none" THEN Result(db, Wrap("FileError", r))
                 ELSE Result(SetItem(db, COLLECTIONS, d), Return(PyNone))

\* load with line 109 keeping the old meta: the parsed document, wrapper
\* included, becomes the collections map
load_WrapperAsCollections(db, f, io) ==
    IF io = "open"
    THEN Result(db, Wrap("FileError", Raise("OSError", <<>>)))
    ELSE IF f.kind \in {"empty", "blank"}
    THEN Result(db, Return(PyNone))
    ELSE IF f.kind # "json"
    THEN Result(db, Wrap("FileError", Raise("JSONDecodeError", <<>>)))
    ELSE LET d == f.doc IN
         IF ~HasLen(d)
         THEN Result(db, Wrap("FileError", Raise("TypeError", <<>>)))
         ELSE IF PyLen(d) = 2 /\ ~IsDict(d)
         THEN Result(db, Wrap("FileError", Raise("AttributeError", <<>>)))
         ELSE LET r == _validate(IF PyLen(d) = 2 /\ META \in KeysOf(d) /\ COLLECTIONS \in KeysOf(d)
                                 THEN d.d[COLLECTIONS] ELSE d)
              IN IF r.err # "none" THEN Result(db, Wrap("FileError", r))
                 ELSE Result(SetItem(db, COLLECTIONS, d), Return(PyNone))

\* load with lines 112-113 as self._cache["collections"].update(d): the
\* file's collections are merged into the ones in memory
load_Merges(db, f, io) ==
    IF io = "open"
    THEN Result(db, Wrap("FileError", Raise("OSError", <<>>)))
    ELSE IF f.kind \in {"empty", "blank"}
    THEN Result(db, Return(PyNone))
    ELSE IF f.kind # "json"
    THEN Result(db, Wrap("FileError", Raise("JSONDecodeError", <<>>)))
    ELSE LET d == f.doc IN
         IF ~HasLen(d)
         THEN Result(db, Wrap("FileError", Raise("TypeError", <<>>)))
         ELSE IF PyLen(d) = 2 /\ ~IsDict(d)
         THEN Result(db, Wrap("FileError", Raise("AttributeError", <<>>)))
         ELSE IF PyLen(d) = 2 /\ META \in KeysOf(d) /\ COLLECTIONS \in KeysOf(d)
         THEN LET r == _validate(d.d[COLLECTIONS])
              IN IF r.err # "none" THEN Result(db, Wrap("FileError", r))
                 ELSE Result(d, Return(PyNone))
         ELSE LET r == _validate(d)
              IN IF r.err # "none" THEN Result(db, Wrap("FileError", r))
                 ELSE Result(SetItem(db, COLLECTIONS,
                                     Dict(Restrict([k \in KeysOf(d) \cup KeysOf(Collections(db)) |->
                                                       IF k \in KeysOf(d) THEN d.d[k]
                                                       ELSE Collections(db).d[k]],
                                                   KeysOf(d) \cup KeysOf(Collections(db))))),
                             Return(PyNone))

\* load assigning before it validates: a document that fails validation has
\* already replaced what was in memory
load_AssignsFirst(db, f, io) ==
    IF io = "open"
    THEN Result(db, Wrap("FileError", Raise("OSError", <<>>)))
    ELSE IF f.kind \in {"empty", "blank"}
    THEN Result(db, Return(PyNone))
    ELSE IF f.kind # "json"
    THEN Result(db, Wrap("FileError", Raise("JSONDecodeError", <<>>)))
    ELSE LET d == f.doc IN
         IF ~HasLen(d)
         THEN Result(db, Wrap("FileError", Raise("TypeError", <<>>)))
         ELSE IF PyLen(d) = 2 /\ ~IsDict(d)
         THEN Result(db, Wrap("FileError", Raise("AttributeError", <<>>)))
         ELSE IF PyLen(d) = 2 /\ META \in KeysOf(d) /\ COLLECTIONS \in KeysOf(d)
         THEN LET r == _validate(d.d[COLLECTIONS])
              IN IF r.err # "none" THEN Result(d, Wrap("FileError", r))
                 ELSE Result(d, Return(PyNone))
         ELSE LET r == _validate(d)
              IN IF r.err # "none" THEN Result(SetItem(db, COLLECTIONS, d), Wrap("FileError", r))
                 ELSE Result(SetItem(db, COLLECTIONS, d), Return(PyNone))

\* load without the len(d) == 2 test of line 105: any root that has the keys
\* meta and collections is taken for a formatted database
load_NoLenTest(db, f, io) ==
    IF io = "open"
    THEN Result(db, Wrap("FileError", Raise("OSError", <<>>)))
    ELSE IF f.kind \in {"empty", "blank"}
    THEN Result(db, Return(PyNone))
    ELSE IF f.kind # "json"
    THEN Result(db, Wrap("FileError", Raise("JSONDecodeError", <<>>)))
    ELSE LET d == f.doc IN
         IF ~IsDict(d)
         THEN Result(db, Wrap("FileError", Raise("AttributeError", <<>>)))
         ELSE IF META \in KeysOf(d) /\ COLLECTIONS \in KeysOf(d)
         THEN LET r == _validate(d.d[COLLECTIONS])
              IN IF r.err # "none" THEN Result(db, Wrap("FileError", r))
                 ELSE Result(d, Return(PyNone))
         ELSE LET r == _validate(d)
              IN IF r.err # "none" THEN Result(db, Wrap("FileError", r))
                 ELSE Result(SetItem(db, COLLECTIONS, d), Return(PyNone))

\* JSONDB.load; io = "open" when open(self.path, 'r') raises
load(db, f, io) ==
    IF io = "open"
    THEN Result(db, Wrap("FileError", Raise("OSError", <<>>)))
    ELSE IF f.kind \in {"empty", "blank"}
    THEN Result(db, Return(PyNone))
    ELSE IF f.kind # "json"
    THEN Result(db, Wrap("FileError", Raise("JSONDecodeError", <<>>)))
    ELSE LET d == f.doc IN
         IF ~HasLen(d)
         THEN Result(db, Wrap("FileError", Raise("TypeError", <<>>)))
         ELSE IF PyLen(d) = 2 /\ ~IsDict(d)
         THEN Result(db, Wrap("FileError", Raise("AttributeError", <<>>)))
         ELSE IF PyLen(d) = 2 /\ META \in KeysOf(d) /\ COLLECTIONS \in KeysOf(d)
         THEN LET r == _validate(d.d[COLLECTIONS])
              IN IF r.err # "none" THEN Result(db, Wrap("FileError", r))
                 ELSE Result(d, Return(PyNone))
         ELSE LET r == _validate(d)
              IN IF r.err # "none" THEN Result(db, Wrap("FileError", r))
                 ELSE Result(SetItem(db, COLLECTIONS, d), Return(PyNone))

-----------------------------------------------------------------------------
(* json.dump, as JSONDB.save uses it *)

\* a dict key as JSON writes it: str(k) for a key that is not a str
EncodeKey(k) == Str(k.v)

\* whether json.dump can write x
RECURSIVE Serializable(_)
Serializable(x) ==
    IF IsDict(x) THEN \A k \in KeysOf(x) : Serializable(x.d[k])
    ELSE x.t \in {"str", "int", "bool", "None", "list", "tuple"}

\* the JSON document json.dump writes for x, as json.load reads it back:
\* a tuple is written as an array, and so comes back as a list
RECURSIVE Encode(_)
Encode(x) ==
    IF IsDict(x)
    THEN Dict(Restrict([k \in {EncodeKey(j) : j \in KeysOf(x)} |->
                           Encode(x.d[CHOOSE j \in KeysOf(x) : EncodeKey(j) = k])],
                       {EncodeKey(j) : j \in KeysOf(x)}))
    ELSE IF x.t = "tuple" THEN PyList(x.v, x.n)
    ELSE x

-----------------------------------------------------------------------------
(* JSONDB.metaUpdate and JSONDB.save *)

\* sys.getsizeof of a dict (CPython 3.11, 64-bit): it grows with the number
\* of entries only, never with what the entries hold
getsizeof(x) ==
    IF PyLen(x) = 0 THEN 64 ELSE IF PyLen(x) <= 5 THEN 184 ELSE 272

\* metaUpdate storing the size under self._cache["collections"]
metaUpdate_IntoCollections(db, t) ==
    IF ~IsDict(Meta(db))
    THEN Result(db, Raise("TypeError", <<>>))
    ELSE Result(SetItem(SetItem(db, META, SetItem(Meta(db), UPDATED, IsoFormat(t))),
                        COLLECTIONS,
                        SetItem(Collections(db), BYTES, PyInt(getsizeof(Collections(db))))),
                Return(PyNone))

\* JSONDB.metaUpdate at instant t: item assignment on self._cache["meta"]
metaUpdate(db, t) ==
    IF ~IsDict(Meta(db))
    THEN Result(db, Raise("TypeError", <<>>))
    ELSE Result(SetItem(db, META,
                        SetItem(SetItem(Meta(db), BYTES, PyInt(getsizeof(Collections(db)))),
                                UPDATED, IsoFormat(t))),
                Return(PyNone))

SaveResult(db, f, r) == [db |-> db, file |-> f, ret |-> r]

\* save keeping the collections that the file holds and memory does not: the
\* file is read and merged with memory before it is written
save_Merges(db, f, t, io) ==
    LET m == metaUpdate(db, t) IN
    IF m.ret.err # "none"
    THEN SaveResult(db, f, Wrap("FileError", m.ret))
    ELSE IF io = "open"
    THEN SaveResult(m.db, f, Wrap("FileError", Raise("OSError", <<>>)))
    ELSE IF io = "write"
    THEN SaveResult(m.db, File("partial", PyNone), Wrap("FileError", Raise("OSError", <<>>)))
    ELSE IF ~Serializable(m.db)
    THEN SaveResult(m.db, File("partial", PyNone), Wrap("FileError", Raise("TypeError", <<>>)))
    ELSE IF f.kind = "json" /\ IsDict(f.doc) /\ KeysOf(f.doc) = {META, COLLECTIONS}
            /\ IsDict(Collections(f.doc))
    THEN LET old == Collections(f.doc)
             new == Collections(Encode(m.db))
             all == KeysOf(old) \cup KeysOf(new)
         IN SaveResult(m.db,
                       JsonFile(SetItem(Encode(m.db), COLLECTIONS,
                                        Dict(Restrict([k \in all |-> IF k \in KeysOf(new)
                                                                     THEN new.d[k]
                                                                     ELSE old.d[k]],
                                                      all)))),
                       Return(PyNone))
    ELSE SaveResult(m.db, JsonFile(Encode(m.db)), Return(PyNone))

\* JSONDB.save at instant t; io = "open" when open(self.path, 'w') raises,
\* "write" when a write of json.dump raises
save(db, f, t, io) ==
    LET m == metaUpdate(db, t) IN
    IF m.ret.err # "none"
    THEN SaveResult(db, f, Wrap("FileError", m.ret))
    ELSE IF io = "open"
    THEN SaveResult(m.db, f, Wrap("FileError", Raise("OSError", <<>>)))
    ELSE IF io = "write"
    THEN SaveResult(m.db, File("partial", PyNone), Wrap("FileError", Raise("OSError", <<>>)))
    ELSE IF ~Serializable(m.db)
    THEN SaveResult(m.db, File("partial", PyNone), Wrap("FileError", Raise("TypeError", <<>>)))
    ELSE SaveResult(m.db, JsonFile(Encode(m.db)), Return(PyNone))

-----------------------------------------------------------------------------
(* Lookups and mutations of the in-memory database *)

\* s.strip() for the strings of the model: only blank ones change
strip(s) == IF s \in {"", " ", "  "} THEN "" ELSE s

\* isinstance(name, str) and name.strip() is not empty
ValidName(name) == IsStr(name) /\ strip(name.v) # ""

\* _getI raising the collection's message for a missing item too
_getI_OneMessage(db, collection, item) ==
    IF collection \in KeysOf(Collections(db))
       /\ item \in KeysOf(Collections(db).d[collection])
    THEN Return(Collections(db).d[collection].d[item])
    ELSE Raise("LookUpError", <<"No collections called '", collection.v, "' could be found">>)

\* JSONDB._getI
_getI(db, collection, item) ==
    IF collection \in KeysOf(Collections(db))
    THEN IF item \in KeysOf(Collections(db).d[collection])
         THEN Return(Collections(db).d[collection].d[item])
         ELSE Raise("LookUpError", <<"No items called '", item.v, "' found in the '",
                                     collection.v, "' collection">>)
    ELSE Raise("LookUpError", <<"No collections called '", collection.v, "' could be found">>)

\* addC without the uniqueness test: an existing collection is reset to {}
addC_Resets(db, newCollectionName) ==
    IF ~ValidName(newCollectionName)
    THEN Result(db, Raise("InsertionError", <<"Collection name must be a non-empty string.">>))
    ELSE Result(SetItem(db, COLLECTIONS, SetItem(Collections(db), newCollectionName, EmptyDict)),
                Return(PyNone))

\* JSONDB.addC
addC(db, newCollectionName) ==
    IF ~ValidName(newCollectionName)
    THEN Result(db, Raise("InsertionError", <<"Collection name must be a non-empty string.">>))
    ELSE IF newCollectionName \notin KeysOf(Collections(db))
    THEN Result(SetItem(db, COLLECTIONS, SetItem(Collections(db), newCollectionName, EmptyDict)),
                Return(PyNone))
    ELSE Result(db, Raise("InsertionError", <<"The database already contains a collection called ",
                                              newCollectionName.v>>))

\* addI reaching the collection with setdefault(collection, {}): a missing
\* parent collection is created
addI_CreatesParent(db, collection, newItemName) ==
    IF ~ValidName(newItemName)
    THEN Result(db, Raise("InsertionError", <<"Item name must be a non-empty string.">>))
    ELSE IF collection \notin KeysOf(Collections(db))
    THEN Result(SetItem(db, COLLECTIONS,
                        SetItem(Collections(db), collection, Dict(newItemName :> EmptyDict))),
                Return(PyNone))
    ELSE IF newItemName \notin KeysOf(Collections(db).d[collection])
    THEN Result(SetItem(db, COLLECTIONS,
                        SetItem(Collections(db), collection,
                                SetItem(Collections(db).d[collection], newItemName, EmptyDict))),
                Return(PyNone))
    ELSE Result(db, Raise("InsertionError", <<"The '", collection.v,
                                              "' collection already contains an item called ",
                                              newItemName.v>>))

\* JSONDB.addI
addI(db, collection, newItemName) ==
    IF ~ValidName(newItemName)
    THEN Result(db, Raise("InsertionError", <<"Item name must be a non-empty string.">>))
    ELSE IF collection \notin KeysOf(Collections(db))
    THEN Result(db, Raise("KeyError", <<collection.v>>))
    ELSE IF newItemName \notin KeysOf(Collections(db).d[collection])
    THEN Result(SetItem(db, COLLECTIONS,
                        SetItem(Collections(db), collection,
                                SetItem(Collections(db).d[collection], newItemName, EmptyDict))),
                Return(PyNone))
    ELSE Result(db, Raise("InsertionError", <<"The '", collection.v,
                                              "' collection already contains an item called ",
                                              newItemName.v>>))

\* JSONDB.getValue
getValue(db, collection, item, key) ==
    LET i == _getI(db, collection, item) IN
    IF i.err # "none" THEN Result(db, i)
    ELSE IF key \in KeysOf(i.val)
    THEN Result(db, Return(i.val.d[key]))
    ELSE Result(db, Raise("LookUpError", <<"A key called '", key.v,
                                           "' could not be found under the specified item dictionary">>))

\* setValue without the uniqueness test: an existing key is overwritten
setValue_Overwrites(db, collection, item, key, value) ==
    LET i == _getI(db, collection, item) IN
    IF i.err # "none" THEN Result(db, i)
    ELSE Result(SetItem(db, COLLECTIONS,
                        SetItem(Collections(db), collection,
                                SetItem(Collections(db).d[collection], item,
                                        SetItem(i.val, key, value)))),
                Return(PyNone))

\* JSONDB.setValue
setValue(db, collection, item, key, value) ==
    LET i == _getI(db, collection, item) IN
    IF i.err # "none" THEN Result(db, i)
    ELSE IF key \notin KeysOf(i.val)
    THEN Result(SetItem(db, COLLECTIONS,
                        SetItem(Collections(db), collection,
                                SetItem(Collections(db).d[collection], item,
                                        SetItem(i.val, key, value)))),
                Return(PyNone))
    ELSE Result(db, Raise("InsertionError", <<"The key name '", key.v,
                                              "' is not unique in the specified item dictionary">>))

\* deleteC emptying the collections map instead of deleting one entry
deleteC_Clears(db, collection) ==
    IF collection \in KeysOf(Collections(db))
    THEN Result(SetItem(db, COLLECTIONS, EmptyDict), Return(PyNone))
    ELSE Result(db, Raise("DataError", <<"The collection '", collection.v,
                                         "' could not be deleted because it was not found in the database">>))

\* JSONDB.deleteC
deleteC(db, collection) ==
    IF collection \in KeysOf(Collections(db))
    THEN Result(SetItem(db, COLLECTIONS, DelItem(Collections(db), collection)), Return(PyNone))
    ELSE Result(db, Raise("DataError", <<"The collection '", collection.v,
                                         "' could not be deleted because it was not found in the database">>))

\* JSONDB.deleteI
deleteI(db, collection, item) ==
    IF collection \notin KeysOf(Collections(db))
    THEN Result(db, Raise("KeyError", <<collection.v>>))
    ELSE IF item \in KeysOf(Collections(db).d[collection])
    THEN Result(SetItem(db, COLLECTIONS,
                        SetItem(Collections(db), collection,
                                DelItem(Collections(db).d[collection], item))),
                Return(PyNone))
    ELSE Result(db, Raise("DataError", <<"The item '", item.v,
                                         "' could not be deleted because it was not found in the '",
                                         collection.v, "' collection">>))

-----------------------------------------------------------------------------
(* The inputs of the model *)

\* the number of save() calls followed
MaxSaves == 2

NoArg == [t |-> "none", v |-> ""]

\* names given for a collection: a proper name, the empty string and a value
\* that is not a str; for an item: a proper name and a blank string
CollectionNames == {Str("c1"), Str(""), IntK("5")}
ItemNames == {Str("i1"), Str(" ")}
\* the collection that addI, setValue and deleteI are given
ParentNames == {Str("c1")}
KeyNames == {Str("k1")}
\* values given to setValue: a str, a tuple (json writes it as an array) and a
\* set (json cannot write it)
Values == {PyStr("a"), PyTuple("a", 2), PySet("a", 2)}

FileMeta(t) == Dict((VERSION :> PyInt(1)) @@ (BYTES :> PyInt(184)) @@ (UPDATED :> IsoFormat(t)))
Item1 == Dict(Str("k1") :> PyStr("b"))

\* what the file at the path holds when the instance is constructed
InitFiles ==
    { EmptyFile,
      File("blank", PyNone),
      File("text", PyNone),
      \* {"c1": {"i1": {"k1": "b"}}}
      JsonFile(Dict(Str("c1") :> Dict(Str("i1") :> Item1))),
      \* {"": {" ": {"k1": "b"}}}
      JsonFile(Dict(Str("") :> Dict(Str(" ") :> Item1))),
      \* [] and ["a", "a"]
      JsonFile(PyList("a", 0)),
      JsonFile(PyList("a", 2)),
      \* 5
      JsonFile(PyInt(5)),
      \* {"c1": {}, "c2": "a"}
      JsonFile(Dict((Str("c1") :> EmptyDict) @@ (Str("c2") :> PyStr("a")))),
      \* {"c1": {"i1": "a"}}
      JsonFile(Dict(Str("c1") :> Dict(Str("i1") :> PyStr("a")))),
      \* {"meta": {"version": 1, "bytes": 184, "updated": ...}, "collections": {"c2": {"i1": {}}}}
      JsonFile(Dict((META :> FileMeta(0))
                    @@ (COLLECTIONS :> Dict(Str("c2") :> Dict(Str("i1") :> EmptyDict))))),
      \* {"meta": {...}, "collections": {"c1": "a"}}
      JsonFile(Dict((META :> FileMeta(0)) @@ (COLLECTIONS :> Dict(Str("c1") :> PyStr("a"))))),
      \* {"meta": 5, "collections": {}}
      JsonFile(Dict((META :> PyInt(5)) @@ (COLLECTIONS :> EmptyDict))),
      \* {"meta": {}, "collections": {"c1": {}}}
      JsonFile(Dict((META :> EmptyDict) @@ (COLLECTIONS :> Dict(Str("c1") :> EmptyDict)))),
      \* {"meta": {}, "collections": {}, "x": {}}
      JsonFile(Dict((META :> EmptyDict) @@ (COLLECTIONS :> EmptyDict) @@ (Str("x") :> EmptyDict)))
    }

-----------------------------------------------------------------------------
(* The state machine: one instance on one path.  call and ret record the   *)
(* last method call and how it ended.  written, deleted and former are     *)
(* history: the <<collection, item, key, value>> that setValue stored and   *)
(* that are still in place, the collections deleteC removed that are still  *)
(* absent, and the <<collection, item, key>> those collections held.        *)

Call(op, c, i, k, x) == [op |-> op, c |-> c, i |-> i, k |-> k, val |-> x]

Ok(r) == r.err = "none"

\* the <<c, item, key>> triples that collection c of db holds
Children(db, c) ==
    UNION {{<<c, i, k>> : k \in KeysOf(Collections(db).d[c].d[i])} :
           i \in KeysOf(Collections(db).d[c])}

\* the names of the collections of db
Present(db) == KeysOf(Collections(db))

Init ==
    /\ cache = NewCache(0)
    /\ file \in InitFiles
    /\ now = 1
    /\ call = Call("__init__", NoArg, NoArg, NoArg, PyNone)
    /\ ret = Return(PyNone)
    /\ written = {}
    /\ deleted = {}
    /\ former = {}

\* load opening the file with 'w+': the file is truncated before it is read
Load_Truncating ==
    \E io \in {"none", "open"} :
        LET r == load(cache, IF io = "open" THEN file ELSE EmptyFile, io) IN
        /\ cache' = r.db
        /\ ret' = r.ret
        /\ call' = Call("load", NoArg, NoArg, NoArg, PyNone)
        /\ file' = IF io = "open" THEN file ELSE EmptyFile
        /\ UNCHANGED <<now, written, deleted, former>>

Load ==
    \E io \in {"none", "open"} :
        LET r == load(cache, file, io) IN
        /\ cache' = r.db
        /\ ret' = r.ret
        /\ call' = Call("load", NoArg, NoArg, NoArg, PyNone)
        /\ written' = IF r.db = cache THEN written ELSE {}
        /\ deleted' = deleted \ Present(r.db)
        /\ former' = {x \in former : x[1] \notin Present(r.db)}
        /\ UNCHANGED <<file, now>>

Save ==
    \E io \in {"none", "open", "write"} :
        /\ now <= MaxSaves
        /\ LET r == save(cache, file, now, io) IN
           /\ cache' = r.db
           /\ file' = r.file
           /\ ret' = r.ret
        /\ call' = Call("save", NoArg, NoArg, NoArg, PyNone)
        /\ now' = now + 1
        /\ UNCHANGED <<written, deleted, former>>

AddC ==
    \E n \in CollectionNames :
        LET r == addC(cache, n) IN
        /\ cache' = r.db
        /\ ret' = r.ret
        /\ call' = Call("addC", n, NoArg, NoArg, PyNone)
        /\ deleted' = deleted \ Present(r.db)
        /\ former' = {x \in former : x[1] \notin Present(r.db)}
        /\ UNCHANGED <<file, now, written>>

AddI ==
    \E c \in ParentNames, n \in ItemNames :
        LET r == addI(cache, c, n) IN
        /\ cache' = r.db
        /\ ret' = r.ret
        /\ call' = Call("addI", c, n, NoArg, PyNone)
        /\ UNCHANGED <<file, now, written, deleted, former>>

GetValue ==
    \E c \in CollectionNames, i \in ItemNames, k \in KeyNames :
        LET r == getValue(cache, c, i, k) IN
        /\ cache' = r.db
        /\ ret' = r.ret
        /\ call' = Call("getValue", c, i, k, PyNone)
        /\ UNCHANGED <<file, now, written, deleted, former>>

SetValue ==
    \E c \in ParentNames, i \in ItemNames, k \in KeyNames, x \in Values :
        LET r == setValue(cache, c, i, k, x) IN
        /\ cache' = r.db
        /\ ret' = r.ret
        /\ call' = Call("setValue", c, i, k, x)
        /\ written' = IF Ok(r.ret) THEN written \cup {<<c, i, k, x>>} ELSE written
        /\ UNCHANGED <<file, now, deleted, former>>

DeleteC ==
    \E c \in CollectionNames :
        LET r == deleteC(cache, c) IN
        /\ cache' = r.db
        /\ ret' = r.ret
        /\ call' = Call("deleteC", c, NoArg, NoArg, PyNone)
        /\ written' = IF Ok(r.ret) THEN {x \in written : x[1] # c} ELSE written
        /\ deleted' = IF Ok(r.ret) THEN deleted \cup {c} ELSE deleted
        /\ former' = IF Ok(r.ret) THEN former \cup Children(cache, c) ELSE former
        /\ UNCHANGED <<file, now>>

DeleteI ==
    \E c \in ParentNames, i \in ItemNames :
        LET r == deleteI(cache, c, i) IN
        /\ cache' = r.db
        /\ ret' = r.ret
        /\ call' = Call("deleteI", c, i, NoArg, PyNone)
        /\ written' = IF Ok(r.ret) THEN {x \in written : ~(x[1] = c /\ x[2] = i)} ELSE written
        /\ UNCHANGED <<file, now, deleted, former>>

Next ==
    \/ Load
    \/ Save
    \/ AddC
    \/ AddI
    \/ GetValue
    \/ SetValue
    \/ DeleteC
    \/ DeleteI

Spec == Init /\ [][Next]_vars

-----------------------------------------------------------------------------
(* JSONDB.__init__ *)

\* the paths an instance is constructed with
Paths == {Str("db.json"), Str("DB.JSON"), Str("db.txt"), Str("db.json.bak"),
          Str("db"), Str(".json")}

\* Path(path).suffix: what follows the last dot of the name, when the dot is
\* not the first character
suffix(path) ==
    CASE path.v = "db.json" -> ".json"
      [] path.v = "DB.JSON" -> ".JSON"
      [] path.v = "db.txt" -> ".txt"
      [] path.v = "db.json.bak" -> ".bak"
      [] OTHER -> ""

\* str.lower on the suffixes above
lower(s) == IF s = ".JSON" THEN ".json" ELSE s

\* no file at the path
NoFile == File("absent", PyNone)

\* no instance: the constructor has not returned one
NoInstance == PyNone

\* the constructor opening the file with 'w': what the file held is lost
__init___Truncates(f, path, t, io) ==
    IF lower(suffix(path)) # ".json"
    THEN SaveResult(NoInstance, f, Raise("PathError", <<"The file at '", path.v,
                                                        "' is not a .json file.">>))
    ELSE IF io = "open"
    THEN SaveResult(NoInstance, f, Wrap("PathError", Raise("OSError", <<>>)))
    ELSE SaveResult(NewCache(t), EmptyFile, Return(PyNone))

\* JSONDB.__init__ at instant t on the file f that path names; io = "open"
\* when open(self.path, 'a') raises
__init__(f, path, t, io) ==
    IF lower(suffix(path)) # ".json"
    THEN SaveResult(NoInstance, f, Raise("PathError", <<"The file at '", path.v,
                                                        "' is not a .json file.">>))
    ELSE IF io = "open"
    THEN SaveResult(NoInstance, f, Wrap("PathError", Raise("OSError", <<>>)))
    ELSE SaveResult(NewCache(t), IF f = NoFile THEN EmptyFile ELSE f, Return(PyNone))

\* before the first construction: the file may not exist
InitNew ==
    /\ cache = NoInstance
    /\ file \in InitFiles \cup {NoFile}
    /\ now = 0
    /\ call = Call("none", NoArg, NoArg, NoArg, PyNone)
    /\ ret = Return(PyNone)
    /\ written = {}
    /\ deleted = {}
    /\ former = {}

\* JSONDB(path), tried again after a PathError
New ==
    /\ cache = NoInstance
    /\ \E path \in Paths, io \in {"none", "open"} :
           LET r == __init__(file, path, now, io) IN
           /\ cache' = r.db
           /\ file' = r.file
           /\ ret' = r.ret
           /\ call' = Call("__init__", path, NoArg, NoArg, PyNone)
           /\ now' = IF Ok(r.ret) THEN now + 1 ELSE now
    /\ UNCHANGED <<written, deleted, former>>

\* the operations follow a construction that succeeded
NextNew ==
    \/ New
    \/ cache # NoInstance /\ Next

SpecNew == InitNew /\ [][NextNew]_vars

-----------------------------------------------------------------------------
(* Two instances on one path *)

\* the instances; each has its own self._cache, the file is one
Stores == {"s1", "s2"}

\* the collection names the two instances use
SharedNames == {Str("c1"), Str("c2")}

\* the call of an operation on instance s
CallOf(s, op, c) == [s |-> s, op |-> op, c |-> c, i |-> NoArg, k |-> NoArg, val |-> PyNone]

\* both instances constructed on the path of an empty file or of a file
\* with one collection; cache[s] is the self._cache of instance s
InitTwo ==
    /\ cache = [s \in Stores |-> NewCache(0)]
    /\ file \in {EmptyFile, JsonFile(Dict(Str("c1") :> Dict(Str("i1") :> Item1)))}
    /\ now = 1
    /\ call = CallOf("s1", "__init__", NoArg)
    /\ ret = Return(PyNone)
    /\ written = {}
    /\ deleted = {}
    /\ former = {}

LoadOf(s) ==
    \E io \in {"none", "open"} :
        LET r == load(cache[s], file, io) IN
        /\ cache' = [cache EXCEPT ![s] = r.db]
        /\ ret' = r.ret
        /\ call' = CallOf(s, "load", NoArg)
        /\ UNCHANGED <<file, now, written, deleted, former>>

SaveOf(s) ==
    \E io \in {"none", "open", "write"} :
        /\ now <= MaxSaves
        /\ LET r == save(cache[s], file, now, io) IN
           /\ cache' = [cache EXCEPT ![s] = r.db]
           /\ file' = r.file
           /\ ret' = r.ret
        /\ call' = CallOf(s, "save", NoArg)
        /\ now' = now + 1
        /\ UNCHANGED <<written, deleted, former>>

AddCOf(s) ==
    \E n \in SharedNames :
        LET r == addC(cache[s], n) IN
        /\ cache' = [cache EXCEPT ![s] = r.db]
        /\ ret' = r.ret
        /\ call' = CallOf(s, "addC", n)
        /\ UNCHANGED <<file, now, written, deleted, former>>

DeleteCOf(s) ==
    \E c \in SharedNames :
        LET r == deleteC(cache[s], c) IN
        /\ cache' = [cache EXCEPT ![s] = r.db]
        /\ ret' = r.ret
        /\ call' = CallOf(s, "deleteC", c)
        /\ UNCHANGED <<file, now, written, deleted, former>>

\* the calls on the two instances interleave, one whole call at a time
NextTwo ==
    \E s \in Stores :
        \/ LoadOf(s)
        \/ SaveOf(s)
        \/ AddCOf(s)
        \/ DeleteCOf(s)

SpecTwo == InitTwo /\ [][NextTwo]_vars

-----------------------------------------------------------------------------
(* The mutations on a database of several collections, items and keys *)

FrameCollections == {Str("c1"), Str("c2")}
FrameItems == {Str("i1"), Str("i2")}
FrameKeys == {Str("k1"), Str("k2")}
FrameValues == {PyStr("a")}

\* a new instance; the file is not used
InitFrame ==
    /\ cache = NewCache(0)
    /\ file = EmptyFile
    /\ now = 1
    /\ call = Call("__init__", NoArg, NoArg, NoArg, PyNone)
    /\ ret = Return(PyNone)
    /\ written = {}
    /\ deleted = {}
    /\ former = {}

AddCIn ==
    \E n \in FrameCollections :
        LET r == addC(cache, n) IN
        /\ cache' = r.db
        /\ ret' = r.ret
        /\ call' = Call("addC", n, NoArg, NoArg, PyNone)
        /\ UNCHANGED <<file, now, written, deleted, former>>

AddIIn ==
    \E c \in FrameCollections, n \in FrameItems :
        LET r == addI(cache, c, n) IN
        /\ cache' = r.db
        /\ ret' = r.ret
        /\ call' = Call("addI", c, n, NoArg, PyNone)
        /\ UNCHANGED <<file, now, written, deleted, former>>

SetValueIn ==
    \E c \in FrameCollections, i \in FrameItems, k \in FrameKeys, x \in FrameValues :
        LET r == setValue(cache, c, i, k, x) IN
        /\ cache' = r.db
        /\ ret' = r.ret
        /\ call' = Call("setValue", c, i, k, x)
        /\ UNCHANGED <<file, now, written, deleted, former>>

DeleteCIn ==
    \E c \in FrameCollections :
        LET r == deleteC(cache, c) IN
        /\ cache' = r.db
        /\ ret' = r.ret
        /\ call' = Call("deleteC", c, NoArg, NoArg, PyNone)
        /\ UNCHANGED <<file, now, written, deleted, former>>

DeleteIIn ==
    \E c \in FrameCollections, i \in FrameItems :
        LET r == deleteI(cache, c, i) IN
        /\ cache' = r.db
        /\ ret' = r.ret
        /\ call' = Call("deleteI", c, i, NoArg, PyNone)
        /\ UNCHANGED <<file, now, written, deleted, former>>

NextFrame ==
    \/ AddCIn
    \/ AddIIn
    \/ SetValueIn
    \/ DeleteCIn
    \/ DeleteIIn

SpecFrame == InitFrame /\ [][NextFrame]_vars

-----------------------------------------------------------------------------
(* Properties *)

\* the database a new instance for the same path holds after its load()
FreshLoad == load(NewCache(now), file, "none")

\* x holds str keys and JSON's own value types only
RECURSIVE JsonNative(_)
JsonNative(x) ==
    IF IsDict(x) THEN \A k \in KeysOf(x) : IsStr(k) /\ JsonNative(x.d[k])
    ELSE x.t \in {"str", "int", "bool", "None", "list"}

\* C1 as stated: after every successful save(), load() on a new instance for
\* the same path gives a collections map equal to the saver's
C1_RoundTrip ==
    (call.op = "save" /\ Ok(ret)) =>
        /\ Ok(FreshLoad.ret)
        /\ Collections(FreshLoad.db) = Collections(cache)

\* C1, amended: after a successful save() of a database whose keys are str
\* and whose values are of JSON's own types, load() on a new instance for the
\* same path succeeds and gives a collections map equal to the saver's
C1_RoundTripJson ==
    (call.op = "save" /\ Ok(ret) /\ JsonNative(Collections(cache))) =>
        /\ Ok(FreshLoad.ret)
        /\ Collections(FreshLoad.db) = Collections(cache)

\* a successful save of a database that holds a key/value pair of JSON's types
C1_Witness ==
    /\ call.op = "save" /\ Ok(ret)
    /\ JsonNative(Collections(cache))
    /\ Str("c1") \in Present(cache)
    /\ Children(cache, Str("c1")) # {}
    /\ Collections(FreshLoad.db) = Collections(cache)

\* the value stored under collection c, item i, key k
Stored(db, c, i, k) == Collections(db).d[c].d[i].d[k]
HasItem(db, c, i) == c \in Present(db) /\ i \in KeysOf(Collections(db).d[c])
HasKey(db, c, i, k) == HasItem(db, c, i) /\ k \in KeysOf(Collections(db).d[c].d[i])

HasChildren(db, c) == c \in Present(db) /\ Children(db, c) # {}

\* C2: once setValue(c,i,k,v1) has succeeded, and until the key is removed
\* (by deleteC, by deleteI, or by a load() that replaces the collections map),
\* every setValue(c,i,k,v2) fails with InsertionError, whatever v2 is, and
\* getValue(c,i,k) returns v1
C2_WriteOnce ==
    [][ /\ \A w \in written' :
              getValue(cache', w[1], w[2], w[3]).ret = Return(w[4])
        /\ (call'.op = "setValue"
             /\ \E w \in written : w[1] = call'.c /\ w[2] = call'.i /\ w[3] = call'.k)
            => (ret'.err = "InsertionError" /\ written' = written)
      ]_vars

\* a second setValue on a written key, with another value, was refused
C2_Witness ==
    /\ call.op = "setValue"
    /\ ret.err = "InsertionError"
    /\ \E w \in written : /\ w[1] = call.c /\ w[2] = call.i /\ w[3] = call.k
                           /\ w[4] # call.val
                           /\ Stored(cache, call.c, call.i, call.k) = w[4]

\* C3: addC of a name that a collection already has, and addI of a name that
\* an item of the collection already has, fail with InsertionError and leave
\* the database, the existing collection or item included, as it was
C3_Uniqueness ==
    [][ /\ (call'.op = "addC" /\ call'.c \in Present(cache))
            => (ret'.err = "InsertionError" /\ cache' = cache)
        /\ (call'.op = "addI" /\ HasItem(cache, call'.c, call'.i))
            => (ret'.err = "InsertionError" /\ cache' = cache)
      ]_vars

\* addC was refused for a collection that holds an item with a key
C3_Witness ==
    /\ call.op = "addC"
    /\ ret.err = "InsertionError"
    /\ call.c \in Present(cache)
    /\ Children(cache, call.c) # {}

\* the three cases of a failed getValue, read off the message
MessageCase(msg) ==
    IF msg = <<>> THEN "none"
    ELSE IF msg[1] = "No collections called '" THEN "collection"
    ELSE IF msg[1] = "No items called '" THEN "item"
    ELSE IF msg[1] = "A key called '" THEN "key"
    ELSE "other"

\* C4: getValue fails with LookUpError when the collection is absent, when
\* the item is absent and when the key is absent, each case with a message
\* of its own, and returns the stored value only when all three are present
C4_LookupFailure ==
    [][ call'.op = "getValue" =>
          LET c == call'.c
              i == call'.i
              k == call'.k
          IN /\ cache' = cache
             /\ c \notin Present(cache)
                 => (ret'.err = "LookUpError" /\ MessageCase(ret'.msg) = "collection")
             /\ (c \in Present(cache) /\ ~HasItem(cache, c, i))
                 => (ret'.err = "LookUpError" /\ MessageCase(ret'.msg) = "item")
             /\ (HasItem(cache, c, i) /\ ~HasKey(cache, c, i, k))
                 => (ret'.err = "LookUpError" /\ MessageCase(ret'.msg) = "key")
             /\ Ok(ret') => (HasKey(cache, c, i, k) /\ ret'.val = Stored(cache, c, i, k))
             /\ HasKey(cache, c, i, k) => Ok(ret')
      ]_vars

\* getValue failed on a key that is absent from an item that exists
C4_Witness ==
    /\ call.op = "getValue"
    /\ ret.err = "LookUpError"
    /\ HasItem(cache, call.c, call.i)
    /\ ~HasKey(cache, call.c, call.i, call.k)

\* C5 as stated: once deleteC(c) has succeeded, and until c is in the
\* database again, getValue fails with LookUpError for every item and key c
\* held, and addC(c) succeeds and gives an empty collection
C5_DeleteSemantics ==
    [][ /\ \A x \in former' :
              getValue(cache', x[1], x[2], x[3]).ret.err = "LookUpError"
        /\ (call'.op = "deleteC" /\ Ok(ret')) => call'.c \notin Present(cache')
        /\ (call'.op = "addC" /\ call'.c \in deleted)
            => (Ok(ret') /\ Collections(cache').d[call'.c] = EmptyDict)
      ]_vars

\* the part of C5 that the code keeps: the lookups fail, and addC of a deleted
\* collection, when it succeeds, gives an empty one
C5_DeletedStaysGone ==
    [][ /\ \A x \in former' :
              getValue(cache', x[1], x[2], x[3]).ret.err = "LookUpError"
        /\ (call'.op = "deleteC" /\ Ok(ret')) => call'.c \notin Present(cache')
        /\ (call'.op = "addC" /\ call'.c \in deleted /\ Ok(ret'))
            => Collections(cache').d[call'.c] = EmptyDict
      ]_vars

\* the file holds a JSON document with the meta / collections wrapper
Canonical(f) ==
    /\ f.kind = "json" /\ IsDict(f.doc) /\ KeysOf(f.doc) = {META, COLLECTIONS}

\* the file holds a JSON document, without the wrapper, that is not an
\* object of objects of objects
InvalidStructure(f) ==
    /\ f.kind = "json"
    /\ ~Canonical(f)
    /\ \/ ~IsDict(f.doc)
       \/ \E c \in KeysOf(f.doc) :
             \/ ~IsDict(f.doc.d[c])
             \/ \E i \in KeysOf(f.doc.d[c]) : ~IsDict(f.doc.d[c].d[i])

\* C6 as stated: load() of a file that holds such a document ends in a
\* DataError (a load whose open() failed apart)
C6_InvalidStructure ==
    (call.op = "load" /\ InvalidStructure(file) /\ ret.cause # "OSError")
        => ret.err = "DataError"

\* what the code does there: every such load ends in a FileError
C6_RaisesFileError ==
    (call.op = "load" /\ InvalidStructure(file)) => ret.err = "FileError"

\* C7: no call other than save() changes the file
C7_OnlySavePersists ==
    [][ call'.op # "save" => file' = file ]_vars

\* a mutation succeeded while the file holds a saved database that differs
C7_Witness ==
    /\ call.op \in {"addC", "addI", "setValue", "deleteC", "deleteI"}
    /\ Ok(ret)
    /\ Canonical(file)
    /\ Collections(file.doc) # Encode(Collections(cache))

\* C8 as stated: a save() that fails with FileError leaves the database and
\* the file as they were
C8_SaveAllOrNothing ==
    [][ (call'.op = "save" /\ ret'.err = "FileError")
        => (cache' = cache /\ file' = file) ]_vars

\* the meta block without the two fields metaUpdate writes
MetaRest(db) ==
    IF IsDict(Meta(db)) THEN DelItem(DelItem(Meta(db), BYTES), UPDATED) ELSE Meta(db)

\* C8, amended: a save() that fails with FileError leaves the collections map
\* and every meta field but bytes and updated as they were, and leaves the
\* file as it was or truncated to a part of the output
C8_SaveFailureKeepsCollections ==
    [][ (call'.op = "save" /\ ret'.err = "FileError")
        => /\ Collections(cache') = Collections(cache)
           /\ KeysOf(cache') = KeysOf(cache)
           /\ MetaRest(cache') = MetaRest(cache)
           /\ (file' = file \/ file'.kind = "partial") ]_vars

\* a save() failed part-way: meta was refreshed, the file is cut short and the
\* collections are still there
C8_Witness ==
    /\ call.op = "save"
    /\ ret.err = "FileError"
    /\ file.kind = "partial"
    /\ IsDict(Meta(cache))
    /\ Meta(cache).d[BYTES] # PyInt(0)
    /\ HasChildren(cache, Str("c1"))

\* the database that addC for every collection of doc, then addI for every
\* item, then setValue for every key give, from db on
RECURSIVE ReplayC(_, _, _)
ReplayC(db, doc, todo) ==
    IF todo = {} THEN db
    ELSE LET c == CHOOSE x \in todo : TRUE
         IN ReplayC(addC(db, c).db, doc, todo \ {c})
RECURSIVE ReplayI(_, _, _)
ReplayI(db, doc, todo) ==
    IF todo = {} THEN db
    ELSE LET p == CHOOSE x \in todo : TRUE
         IN ReplayI(addI(db, p[1], p[2]).db, doc, todo \ {p})
RECURSIVE ReplayK(_, _, _)
ReplayK(db, doc, todo) ==
    IF todo = {} THEN db
    ELSE LET p == CHOOSE x \in todo : TRUE
         IN ReplayK(setValue(db, p[1], p[2], p[3], doc.d[p[1]].d[p[2]].d[p[3]]).db,
                    doc, todo \ {p})
Replay(doc) ==
    LET items == UNION {{<<c, i>> : i \in KeysOf(doc.d[c])} : c \in KeysOf(doc)}
        keys == UNION {{<<p[1], p[2], k>> : k \in KeysOf(doc.d[p[1]].d[p[2]])} : p \in items}
    IN ReplayK(ReplayI(ReplayC(NewCache(0), doc, KeysOf(doc)), doc, items), doc, keys)

\* the file holds an object of objects of objects without the wrapper
LegacyFile(f) ==
    /\ f.kind = "json" /\ IsDict(f.doc) /\ ~Canonical(f)
    /\ \A c \in KeysOf(f.doc) :
          /\ IsDict(f.doc.d[c])
          /\ \A i \in KeysOf(f.doc.d[c]) : IsDict(f.doc.d[c].d[i])

\* C9 as stated: load() of such a file succeeds, makes the collections map
\* the file's root, which is also what the matching addC, addI and setValue
\* calls on a new instance give, and leaves meta as it was
C9_TolerantLoad ==
    [][ (call'.op = "load" /\ LegacyFile(file) /\ ret'.cause # "OSError")
        => /\ Ok(ret')
           /\ Collections(cache') = file.doc
           /\ Meta(cache') = Meta(cache)
           /\ Collections(Replay(file.doc)) = Collections(cache') ]_vars

\* the part of C9 that the code keeps
C9_LoadsRoot ==
    [][ (call'.op = "load" /\ LegacyFile(file) /\ ret'.cause # "OSError")
        => /\ Ok(ret')
           /\ Collections(cache') = file.doc
           /\ Meta(cache') = Meta(cache) ]_vars

\* C10: load() of an empty or whitespace-only file raises nothing and leaves
\* the database as it was (a load whose open() failed apart)
C10_EmptyFileLoad ==
    [][ (call'.op = "load" /\ file.kind \in {"empty", "blank"} /\ ret'.cause # "OSError")
        => (Ok(ret') /\ cache' = cache) ]_vars

\* load() of a whitespace-only file returned while the database holds a
\* key/value pair
C10_Witness ==
    /\ call.op = "load"
    /\ Ok(ret)
    /\ file.kind = "blank"
    /\ HasChildren(cache, Str("c1"))

\* The file right after a successful save() is an object with the keys meta
\* and collections, and its collections are the ones in memory as json.dump
\* writes them
SavedCanonical ==
    /\ Canonical(file)
    /\ Collections(file.doc) = Encode(Collections(cache))

\* C11: after every successful save(), whatever loads and mutations came
\* before, the file holds an object with exactly the keys meta and
\* collections, meta has the fields version, bytes and updated, and
\* collections equals the in-memory collections map
C11_CanonicalOutput ==
    (call.op = "save" /\ Ok(ret)) =>
        /\ SavedCanonical
        /\ IsDict(Meta(file.doc))
        /\ {VERSION, BYTES, UPDATED} \subseteq KeysOf(Meta(file.doc))

\* What does hold after a successful save(): the two keys and the
\* collections; meta has bytes and updated, version only if the loaded
\* file had it
C11_TwoKeys ==
    (call.op = "save" /\ Ok(ret)) =>
        /\ SavedCanonical
        /\ {BYTES, UPDATED} \subseteq KeysOf(Meta(file.doc))

\* C12: Store(path) fails with PathError when the suffix of path is not
\* .json, compared without regard to case, and then no file is created; when
\* construction succeeds the file exists, a file that existed keeps its
\* content, and the database in memory has version 1, bytes 0 and no
\* collections
C12_Construction ==
    [][call'.op = "__init__" =>
         /\ lower(suffix(call'.c)) # ".json" =>
                /\ ret'.err = "PathError"
                /\ file' = file
         /\ (ret'.err = "PathError" /\ ret'.cause = "none") => lower(suffix(call'.c)) # ".json"
         /\ Ok(ret') =>
                /\ file' # NoFile
                /\ file # NoFile => file' = file
                /\ file = NoFile => file' = EmptyFile
                /\ Meta(cache').d[VERSION] = PyInt(1)
                /\ Meta(cache').d[BYTES] = PyInt(0)
                /\ Collections(cache') = EmptyDict
         /\ ~Ok(ret') => cache' = NoInstance]_vars

\* an instance made for DB.JSON, where a file with content was
C12_Witness ==
    /\ call.op = "__init__"
    /\ call.c = Str("DB.JSON")
    /\ Ok(ret)
    /\ file.kind = "json"
    /\ cache = NewCache(0)

\* the collection and item names held in db
Names(db) ==
    Present(db) \cup UNION {KeysOf(Collections(db).d[c]) : c \in Present(db)}

\* C13: in every reachable state (after construction, load, save and every
\* mutation) each collection name and each item name in memory is a
\* non-empty string
C13_NameInvariant ==
    \A name \in Names(cache) : IsStr(name) /\ name.v # ""

\* The names that addC and addI themselves put in memory pass the name test
\* of lines 221 and 244
C13_AddedNamesValid ==
    [][(call'.op \in {"addC", "addI"} /\ Ok(ret')) =>
           \A name \in Names(cache') \ Names(cache) : ValidName(name)]_vars

\* db is an object whose collections value is an object, and every
\* collection and every item in it is an object
Structured(db) ==
    /\ IsDict(db)
    /\ COLLECTIONS \in KeysOf(db)
    /\ IsDict(Collections(db))
    /\ \A c \in Present(db) :
           /\ IsDict(Collections(db).d[c])
           /\ \A i \in KeysOf(Collections(db).d[c]) : IsDict(Collections(db).d[c].d[i])

\* C14: in every reachable state, the load of any file content included, the
\* database in memory is an object whose collections value is an object, and
\* every collection value and every item value is an object
C14_Structure == Structured(cache)

\* a load has refused a file with an item that is not an object, and the
\* database holds an item
C14_Witness ==
    /\ call.op = "load"
    /\ ret.cause = "DataError"
    /\ file = JsonFile(Dict(Str("c1") :> Dict(Str("i1") :> PyStr("a"))))
    /\ HasItem(cache, Str("c1"), Str("i1"))

\* the collections a file stores: the collections of a formatted database,
\* the root of any other document, none for an empty file
FileCollections(f) ==
    IF f.kind \in {"empty", "blank"} THEN EmptyDict
    ELSE IF Canonical(f) THEN Collections(f.doc)
    ELSE f.doc

FailSafeOps == {"addC", "addI", "setValue", "getValue", "deleteC", "deleteI", "load"}

\* C16: whenever addCollection, addItem, setValue, getValue,
\* deleteCollection, deleteItem or load ends in an error of any kind (a load
\* that fails validation part-way and a delete of an absent target
\* included), the database in memory is exactly what it was before the call
C16_FailureChangesNothing ==
    [][ /\ (call'.op \in FailSafeOps /\ ~Ok(ret')) => cache' = cache
        /\ (call'.op = "deleteC" /\ call'.c \notin Present(cache)) =>
               ret'.err = "DataError"
        /\ (call'.op = "deleteI" /\ call'.c \in Present(cache)
               /\ ~HasItem(cache, call'.c, call'.i)) =>
               ret'.err = "DataError" ]_vars

\* a load has failed on the second collection of the file, after the first
\* one passed, and the database keeps the item made before
C16_Witness ==
    /\ call.op = "load"
    /\ ret.err = "FileError"
    /\ ret.cause = "DataError"
    /\ file = JsonFile(Dict((Str("c1") :> EmptyDict) @@ (Str("c2") :> PyStr("a"))))
    /\ HasItem(cache, Str("c1"), Str("i1"))

C18_CanonicalLoad ==
    [][(call'.op = "load" /\ ret'.cause # "OSError") =>
         /\ (Canonical(file) /\ Ok(_validate(Collections(file.doc)))) =>
                /\ Ok(ret')
                /\ cache' = file.doc
         /\ (file.kind = "json" /\ ~Canonical(file) /\ Ok(ret')) =>
                /\ Meta(cache') = Meta(cache)
                /\ Collections(cache') = file.doc ]_vars

\* a formatted file has been loaded over a database in which c1 was added
\* and deleted: memory is the root of the file, meta included
C18_Witness ==
    /\ call.op = "load"
    /\ Ok(ret)
    /\ Canonical(file)
    /\ cache = file.doc
    /\ Meta(cache) # Meta(NewCache(0))
    /\ Str("c1") \in deleted

\* the instance that is not s
Other(s) == CHOOSE o \in Stores : o # s

\* C19: with two instances on the same path, each with its own changes in
\* memory, every successful save makes the file hold exactly the collections
\* of the instance that saves, and no other call writes the file; so after
\* both have saved, in any interleaving, the file holds the collections of
\* the last saver, and those of the earlier saver are not merged in
C19_LastSaveWins ==
    [][ /\ (call'.op = "save" /\ Ok(ret')) =>
               /\ Canonical(file')
               /\ Collections(file'.doc) = Encode(Collections(cache'[call'.s]))
               /\ \A c \in Present(cache'[Other(call'.s)]) \ Present(cache'[call'.s]) :
                      c \notin KeysOf(Collections(file'.doc))
        /\ call'.op # "save" => file' = file ]_vars

\* s1 saved c1 at instant 1 and s2 has saved c2 at instant 2: the file holds
\* c2 only
C19_Witness ==
    /\ call.op = "save"
    /\ call.s = "s2"
    /\ Ok(ret)
    /\ Present(cache["s1"]) = {Str("c1")}
    /\ Present(cache["s2"]) = {Str("c2")}
    /\ Meta(cache["s1"]).d[UPDATED] = IsoFormat(1)
    /\ Meta(cache["s2"]).d[UPDATED] = IsoFormat(2)
    /\ KeysOf(Collections(file.doc)) = {Str("c2")}

\* the objects x and y have the same entries, the entry of k left aside
SameExcept(x, y, k) ==
    /\ KeysOf(x) \ {k} = KeysOf(y) \ {k}
    /\ \A j \in KeysOf(x) \ {k} : x.d[j] = y.d[j]

\* the operations that change the collections in memory
MutationOps == {"addC", "addI", "setValue", "deleteC", "deleteI"}

\* C20: a successful addCollection, addItem, setValue, deleteCollection or
\* deleteItem changes only its named target (one empty collection added, one
\* empty item added, one key/value pair added, one collection removed, one
\* item removed); every other collection, item and key/value pair and the
\* meta block are unchanged
C20_MutationFrame ==
    [][(call'.op \in MutationOps /\ Ok(ret')) =>
         LET old == Collections(cache)
             new == Collections(cache')
             c == call'.c
             i == call'.i
             k == call'.k
         IN /\ SameExcept(cache', cache, COLLECTIONS)
            /\ SameExcept(new, old, c)
            /\ call'.op = "addC" =>
                   c \notin KeysOf(old) /\ c \in KeysOf(new) /\ new.d[c] = EmptyDict
            /\ call'.op = "deleteC" =>
                   c \in KeysOf(old) /\ c \notin KeysOf(new)
            /\ call'.op \in {"addI", "setValue", "deleteI"} =>
                   /\ c \in KeysOf(old) /\ c \in KeysOf(new)
                   /\ SameExcept(new.d[c], old.d[c], i)
            /\ call'.op = "addI" =>
                   /\ i \notin KeysOf(old.d[c])
                   /\ i \in KeysOf(new.d[c])
                   /\ new.d[c].d[i] = EmptyDict
            /\ call'.op = "deleteI" =>
                   i \in KeysOf(old.d[c]) /\ i \notin KeysOf(new.d[c])
            /\ call'.op = "setValue" =>
                   /\ i \in KeysOf(old.d[c]) /\ i \in KeysOf(new.d[c])
                   /\ SameExcept(new.d[c].d[i], old.d[c].d[i], k)
                   /\ k \notin KeysOf(old.d[c].d[i])
                   /\ k \in KeysOf(new.d[c].d[i])
                   /\ new.d[c].d[i].d[k] = call'.val ]_vars

\* c1 has been deleted from a database in which c2 has two items, one of
\* them with two keys
C20_Witness ==
    /\ call.op = "deleteC"
    /\ call.c = Str("c1")
    /\ Ok(ret)
    /\ Present(cache) = {Str("c2")}
    /\ HasItem(cache, Str("c2"), Str("i1"))
    /\ HasKey(cache, Str("c2"), Str("i2"), Str("k1"))
    /\ HasKey(cache, Str("c2"), Str("i2"), Str("k2"))

====
